---- MODULE Spec2Model ----
(***************************************************************************)
(* Model of the admin dashboard's BillboardForm (create / edit / delete    *)
(* screen of one billboard record) and of the page that loads the record   *)
(* the form is initialised from.                                           *)
(*                                                                         *)
(* Granularity: one action per browser task.  An event handler runs        *)
(* together with the promise continuations it triggers up to the first     *)
(* network await; the resolution of a request runs the rest of the async   *)
(* function (try tail, catch, finally).  React commits a state update to   *)
(* the DOM in a separate, later task (Render), so the attributes of the    *)
(* rendered buttons may lag behind the component state.                    *)
(*                                                                         *)
(* Strings that the code inspects (ids, labels, urls) are sequences of     *)
(* one-character strings.                                                  *)
(***************************************************************************)
EXTENDS Integers, Sequences, FiniteSets, TLC

VARIABLES
    params,       \* useParams(): [storeId, billboardId]
    initialData,  \* the prop: NoData or [_id, label, imageUrl]
    values,       \* react-hook-form field values
    errors,       \* formState.errors: the fields with a validation message
    isSubmitted,  \* formState.isSubmitted: handleSubmit has run
    open,         \* useState(false): confirmation modal state
    loading,      \* useState(false)
    rendered,     \* what the DOM shows: [loading, open] of the last commit
    mounted,      \* the form instance is still on screen
    navPending,   \* a router.push has been issued and not yet committed
    inflight,     \* requests sent and not yet resolved
    sent,         \* every request issued so far, in order
    log,          \* router / toast effects so far, in order
    db,           \* the backing store's billboard records
    trashClicked, \* history: the delete (trash) button has been clicked
    submits,      \* history: submit events that passed validation
    clickedSince, \* history: the delete button has been clicked since the
                  \* last delete completed
    page,         \* ProductPage: the server component's run
    list,         \* BillboardClient / CategoryClient: the list screen
    modal         \* SetUpPage and the store modal

vars == <<params, initialData, values, errors, isSubmitted, open, loading, rendered, mounted,
          navPending, inflight, sent, log, db, trashClicked, submits, clickedSince,
          page, list, modal>>

\* The form's variables, and those of the other screens.
formVars == <<params, initialData, values, errors, isSubmitted, open, loading, rendered,
              mounted, navPending, inflight, sent, log, db, trashClicked, submits,
              clickedSince>>
otherVars == <<page, list, modal>>

(***************************************************************************)
(* Bounds                                                                  *)
(***************************************************************************)
MaxRequests == 2

(***************************************************************************)
(* Strings                                                                 *)
(***************************************************************************)
Rep(c, n) == [i \in 1..n |-> c]

LowerHex == <<"0", "1", "2", "3", "4", "5", "6", "7", "8", "9",
              "a", "b", "c", "d", "e", "f">>
UpperHex == <<"0", "1", "2", "3", "4", "5", "6", "7", "8", "9",
              "A", "B", "C", "D", "E", "F">>

IsHexChar(c) == \E n \in 1..16 : LowerHex[n] = c \/ UpperHex[n] = c

NibbleOf(c) == (CHOOSE n \in 1..16 : LowerHex[n] = c \/ UpperHex[n] = c) - 1

\* null / undefined
NoData == [none |-> TRUE]

(***************************************************************************)
(* Object ids.  An ObjectId is 12 bytes, modelled as 24 nibbles; its       *)
(* string form is 24 lower-case hex digits.                                *)
(***************************************************************************)
\* mongoose isValidObjectId on a string: 24 hex digits of either case.
isValidObjectId(s) == Len(s) = 24 /\ \A i \in 1..Len(s) : IsHexChar(s[i])

\* The cast findById applies to its argument.
CastObjectId(s) == [i \in 1..Len(s) |-> NibbleOf(s[i])]

\* ObjectId.prototype.toString()
ObjectIdToString(oid) == [i \in 1..Len(oid) |-> LowerHex[oid[i] + 1]]

IdNew == <<"n", "e", "w">>
IdA == <<"a">> \o Rep("1", 23)
IdAUpper == <<"A">> \o Rep("1", 23)

\* The routes the screen is opened on: the creation route, and the id of a
\* stored record in both spellings.
Routes ==
    {[storeId |-> "s1", billboardId |-> IdNew],
     [storeId |-> "s1", billboardId |-> IdA],
     [storeId |-> "s1", billboardId |-> IdAUpper]}

(***************************************************************************)
(* Field inputs                                                            *)
(***************************************************************************)
EmptyString == <<>>
UrlGood == <<"h", "t", "t", "p", "s", ":", "/", "/", "h", "/", "i", ".", "p", "n", "g">>

LabelInputs == {Rep("x", n) : n \in {2, 4}}
UrlInputs == {EmptyString, UrlGood}

\* The field contents the validation is exercised on: labels around both
\* length limits, and strings that are and are not absolute URLs.
UrlNoScheme == <<"h", "/", "i", ".", "p", "n", "g">>
UrlNoHost == <<"h", "t", "t", "p", "s", ":", "/", "/">>
UrlOpaque == <<"d", "a", "t", "a", ":", "x">>
UrlBadScheme == <<"1", "a", ":", "x">>
TypedLabels == {Rep("x", n) : n \in {0, 2, 3, 25, 26}}
TypedUrls == {EmptyString, UrlGood, UrlNoScheme, UrlNoHost, UrlOpaque, UrlBadScheme}

(***************************************************************************)
(* formSchema: z.object({label: string.min(3).max(25), imageUrl: url})     *)
(***************************************************************************)
Letters == {"a", "b", "c", "d", "e", "f", "g", "h", "i", "j", "k", "l", "m",
            "n", "o", "p", "q", "r", "s", "t", "u", "v", "w", "x", "y", "z"}
Digits == {"0", "1", "2", "3", "4", "5", "6", "7", "8", "9"}
SpecialSchemes == {<<"h", "t", "t", "p">>, <<"h", "t", "t", "p", "s">>,
                   <<"f", "t", "p">>, <<"w", "s">>, <<"w", "s", "s">>}

\* Position of the first ":" of s, 0 when there is none.
FirstColon(s) ==
    IF \E k \in 1..Len(s) : s[k] = ":"
    THEN CHOOSE k \in 1..Len(s) : s[k] = ":" /\ \A j \in 1..(k - 1) : s[j] # ":"
    ELSE 0

\* s without its leading slashes.
RECURSIVE StripSlashes(_)
StripSlashes(s) ==
    IF s # <<>> /\ Head(s) \in {"/", "\\"} THEN StripSlashes(Tail(s)) ELSE s

\* z.string().url(): the string parses as an absolute URL (new URL(s) does
\* not throw): a scheme, and for a special scheme a non-empty host.
IsUrl(s) ==
    LET k == FirstColon(s)
        scheme == SubSeq(s, 1, k - 1)
        rest == StripSlashes(SubSeq(s, k + 1, Len(s)))
    IN  /\ k > 1
        /\ s[1] \in Letters
        /\ \A j \in 2..(k - 1) : s[j] \in Letters \cup Digits \cup {"+", "-", "."}
        /\ scheme \in SpecialSchemes =>
               rest # <<>> /\ Head(rest) \notin {"?", "#", ":"}

\* Mutant: the label only required to be non-empty.
LabelOk_Min1(label) == Len(label) >= 1 /\ Len(label) <= 25

LabelOk(label) == Len(label) >= 3 /\ Len(label) <= 25

\* The fields formSchema rejects.
SchemaErrors(v) ==
    (IF LabelOk(v.label) THEN {} ELSE {"label"})
        \cup (IF IsUrl(v.imageUrl) THEN {} ELSE {"imageUrl"})

\* Mutant: a schema that passes unknown keys through.
SchemaParse_Passthrough(v) == v

\* The parsed output of formSchema: z.object keeps the keys of the schema
\* and strips every other key of its input.
SchemaParse(v) == [label |-> v.label, imageUrl |-> v.imageUrl]

(***************************************************************************)
(* Backing store and the page that loads the record                        *)
(***************************************************************************)
InitialDb ==
    {[_id |-> CastObjectId(IdA), storeId |-> "s1",
      label |-> Rep("x", 3), imageUrl |-> UrlGood]}

\* Model.findById(id).lean(): the record whose _id is the cast id, or null.
findById(id, store) ==
    LET oid == CastObjectId(id)
    IN  IF \E rec \in store : rec._id = oid
        THEN CHOOSE rec \in store : rec._id = oid
        ELSE NoData

\* The page's load of the record being edited (step 1 of ProductPage, the
\* edit page whose source is at hand; the route's id parameter is named
\* billboardId on the billboard screen).  The record's _id is handed to the
\* form in the ObjectId's string form, not as the route spelt it.
LoadRecord(p, store) ==
    IF p.billboardId # IdNew /\ isValidObjectId(p.billboardId)
    THEN LET found == findById(p.billboardId, store)
         IN  IF found # NoData
             THEN [_id |-> ObjectIdToString(found._id),
                   label |-> found.label,
                   imageUrl |-> found.imageUrl]
             ELSE NoData
    ELSE NoData

(***************************************************************************)
(* API routes of the billboards collection (the persistence endpoint)      *)
(***************************************************************************)
FreshOid(n) == [i \in 1..24 |-> IF i = 1 THEN 15 ELSE IF i = 2 THEN n ELSE 0]

\* The store after the endpoint has carried out request r.
ServerApply(store, r) ==
    LET sid == r.path[2]
    IN  CASE r.method = "POST" ->
               store \cup {[_id |-> FreshOid(r.id), storeId |-> sid,
                            label |-> r.body.label, imageUrl |-> r.body.imageUrl]}
          [] r.method = "PATCH" ->
               {IF rec._id = CastObjectId(r.path[4]) /\ rec.storeId = sid
                THEN [rec EXCEPT !.label = r.body.label, !.imageUrl = r.body.imageUrl]
                ELSE rec : rec \in store}
          [] r.method = "DELETE" ->
               {rec \in store : ~(rec._id = CastObjectId(r.path[4]) /\ rec.storeId = sid)}

\* The rows a list fetch for store sid yields.
ListRows(store, sid) ==
    {[id |-> ObjectIdToString(rec._id), label |-> rec.label] :
        rec \in {x \in store : x.storeId = sid}}

(***************************************************************************)
(* BillboardForm                                                           *)
(***************************************************************************)
ToastCreated == "Billboard created successfully"
ToastUpdated == "Billboard updated successfully"
ToastDeleted == "Billboard deleted successfully"
ToastFailed == "Something went wrong."
ToastDeleteFailed == "Make sure you deleted all categories using this billboard first"

toastMessage == IF initialData # NoData THEN ToastUpdated ELSE ToastCreated

\* useForm defaultValues
defaultValues ==
    IF initialData # NoData THEN initialData
    ELSE [label |-> EmptyString, imageUrl |-> EmptyString]

CollectionPath == <<"api", params.storeId, "billboards">>
RecordPath == <<"api", params.storeId, "billboards", params.billboardId>>
ListRoute == <<params.storeId, "billboards">>

NoBody == [none |-> TRUE]

\* Mutant: the mode test of onSubmit inverted.
SubmitRequest_ModeSwapped(data) ==
    IF initialData = NoData
    THEN [id |-> Len(sent) + 1, kind |-> "submit", method |-> "PATCH",
          path |-> RecordPath, body |-> data, at |-> Len(log)]
    ELSE [id |-> Len(sent) + 1, kind |-> "submit", method |-> "POST",
          path |-> CollectionPath, body |-> data, at |-> Len(log)]

\* The request onSubmit issues for the validated data.
SubmitRequest(data) ==
    IF initialData # NoData
    THEN [id |-> Len(sent) + 1, kind |-> "submit", method |-> "PATCH",
          path |-> RecordPath, body |-> data, at |-> Len(log)]
    ELSE [id |-> Len(sent) + 1, kind |-> "submit", method |-> "POST",
          path |-> CollectionPath, body |-> data, at |-> Len(log)]

\* The request onDelete issues.
DeleteRequest ==
    [id |-> Len(sent) + 1, kind |-> "delete", method |-> "DELETE",
     path |-> RecordPath, body |-> NoBody, at |-> Len(log)]

Effect(e, r, a) == [eff |-> e, req |-> r.id, arg |-> a]

\* Mutant: the cache refreshed before the navigation.
SuccessEffects_RefreshFirst(r) ==
    <<Effect("refresh", r, <<>>),
      Effect("push", r, ListRoute),
      Effect("toast.success", r,
             <<IF r.kind = "delete" THEN ToastDeleted ELSE toastMessage>>)>>

\* What runs after the awaited request of r resolved without throwing.
SuccessEffects(r) ==
    <<Effect("push", r, ListRoute),
      Effect("refresh", r, <<>>),
      Effect("toast.success", r,
             <<IF r.kind = "delete" THEN ToastDeleted ELSE toastMessage>>)>>

\* Mutant: a catch block that also navigates.
FailureEffects_Navigates(r) ==
    <<Effect("toast.error", r,
             <<IF r.kind = "delete" THEN ToastDeleteFailed ELSE ToastFailed>>),
      Effect("push", r, ListRoute)>>

\* Mutant: onDelete's catch block showing onSubmit's message.
FailureEffects_GenericToast(r) ==
    <<Effect("toast.error", r, <<ToastFailed>>)>>

\* The catch block.
FailureEffects(r) ==
    <<Effect("toast.error", r,
             <<IF r.kind = "delete" THEN ToastDeleteFailed ELSE ToastFailed>>)>>

\* The submit button, the trash button and the inputs carry disabled={loading}.
ControlsEnabled == mounted /\ ~rendered.loading

\* Mutant: the trash button rendered in both modes.
TrashButtonRendered_Always == TRUE

\* {initialData && <Button ... onClick={() => setOpen(true)}>}
TrashButtonRendered == initialData # NoData

\* AlertModal shows its Confirm button while isOpen, disabled while loading.
ConfirmEnabled == mounted /\ rendered.open /\ ~rendered.loading

\* Mutant: the modal state starting open.
InitialOpen_True == TRUE

\* useState initial values
InitialOpen == FALSE
InitialLoading == FALSE

\* A screen that is not on display.
Off == [pc |-> "off"]

Init ==
    /\ params \in Routes
    /\ db = InitialDb
    /\ initialData = LoadRecord(params, db)
    /\ values = defaultValues
    /\ errors = {}
    /\ isSubmitted = FALSE
    /\ open = InitialOpen
    /\ loading = InitialLoading
    /\ rendered = [loading |-> loading, open |-> open]
    /\ mounted = TRUE
    /\ navPending = FALSE
    /\ inflight = {}
    /\ sent = <<>>
    /\ log = <<>>
    /\ trashClicked = FALSE
    /\ submits = 0
    /\ clickedSince = FALSE
    /\ page = Off
    /\ list = Off
    /\ modal = Off

\* useForm's default reValidateMode 'onChange': once the form has been
\* submitted, a change of a field validates that field again.
Revalidate(field, v) ==
    IF isSubmitted
    THEN (errors \ {field}) \cup (SchemaErrors(v) \cap {field})
    ELSE errors

\* React commits the pending state updates to the DOM.  Updates made after
\* an await (onSubmit, the finally blocks) wait for this step; an update made
\* in a click handler itself is committed before the click returns.
Render ==
    /\ mounted
    /\ rendered # [loading |-> loading, open |-> open]
    /\ rendered' = [loading |-> loading, open |-> open]
    /\ UNCHANGED <<params, initialData, values, errors, isSubmitted, open, loading, mounted,
                   navPending, inflight, sent, log, db, trashClicked, submits>>
    /\ UNCHANGED <<clickedSince, page, list, modal>>

\* <Input {...field}/> onChange
ChangeLabel ==
    /\ ControlsEnabled
    /\ \E l \in LabelInputs : values' = [values EXCEPT !.label = l]
    /\ errors' = Revalidate("label", values')
    /\ UNCHANGED <<params, initialData, isSubmitted, open, loading, rendered, mounted,
                   navPending, inflight, sent, log, db, trashClicked, submits>>
    /\ UNCHANGED <<clickedSince, page, list, modal>>

\* ImageUpload onChange(url) and onRemove()
ChangeImage ==
    /\ ControlsEnabled
    /\ \E u \in UrlInputs : values' = [values EXCEPT !.imageUrl = u]
    /\ errors' = Revalidate("imageUrl", values')
    /\ UNCHANGED <<params, initialData, isSubmitted, open, loading, rendered, mounted,
                   navPending, inflight, sent, log, db, trashClicked, submits>>
    /\ UNCHANGED <<clickedSince, page, list, modal>>

\* form onSubmit={form.handleSubmit(onSubmit)}: validate with the resolver,
\* then run onSubmit up to its awaited request.  handleSubmit marks the form
\* submitted when it ends: at once for invalid values, and when onSubmit has
\* returned for valid ones.
Submit ==
    /\ ControlsEnabled
    /\ LET errs == SchemaErrors(values)
       IN  IF errs = {}
           THEN LET r == SubmitRequest(SchemaParse(values))
                IN  /\ Len(sent) < MaxRequests
                    /\ errors' = {}
                    /\ loading' = TRUE
                    /\ inflight' = inflight \cup {r}
                    /\ sent' = Append(sent, r)
                    /\ submits' = submits + 1
                    /\ UNCHANGED isSubmitted
           ELSE /\ errors' = errs
                /\ isSubmitted' = TRUE
                /\ UNCHANGED <<loading, inflight, sent, submits>>
    /\ UNCHANGED <<params, initialData, values, open, rendered, mounted,
                   navPending, log, db, trashClicked>>
    /\ UNCHANGED <<clickedSince, page, list, modal>>

\* The trash button's onClick: setOpen(true), committed with the click.
TrashClick ==
    /\ ControlsEnabled
    /\ TrashButtonRendered
    /\ open' = TRUE
    /\ rendered' = [rendered EXCEPT !.open = TRUE]
    /\ trashClicked' = TRUE
    /\ UNCHANGED <<params, initialData, values, errors, isSubmitted, loading, mounted,
                   navPending, inflight, sent, log, db, submits>>
    /\ clickedSince' = TRUE
    /\ UNCHANGED otherVars

\* AlertModal onClose: setOpen(false), committed with the click.
ModalClose ==
    /\ mounted
    /\ rendered.open
    /\ open' = FALSE
    /\ rendered' = [rendered EXCEPT !.open = FALSE]
    /\ UNCHANGED <<params, initialData, values, errors, isSubmitted, loading, mounted,
                   navPending, inflight, sent, log, db, trashClicked, submits>>
    /\ UNCHANGED <<clickedSince, page, list, modal>>

\* AlertModal onConfirm={onDelete}: onDelete up to its awaited request;
\* setLoading(true) runs in the click and is committed with it.
ConfirmClick ==
    /\ ConfirmEnabled
    /\ Len(sent) < MaxRequests
    /\ loading' = TRUE
    /\ rendered' = [rendered EXCEPT !.loading = TRUE]
    /\ inflight' = inflight \cup {DeleteRequest}
    /\ sent' = Append(sent, DeleteRequest)
    /\ UNCHANGED <<params, initialData, values, errors, isSubmitted, open, mounted,
                   navPending, log, db, trashClicked, submits>>
    /\ UNCHANGED <<clickedSince, page, list, modal>>

\* The finally blocks; a state update of an unmounted component is dropped.
\* When onSubmit returns, handleSubmit ends.
Finally(r) ==
    /\ loading' = IF mounted THEN FALSE ELSE loading
    /\ open' = IF mounted /\ r.kind = "delete" THEN FALSE ELSE open
    /\ isSubmitted' = IF r.kind = "submit" THEN TRUE ELSE isSubmitted
    /\ clickedSince' = IF r.kind = "delete" THEN FALSE ELSE clickedSince

\* The awaited request resolves: the rest of the try block, then finally.
ResolveOk ==
    \E r \in inflight :
        /\ inflight' = inflight \ {r}
        /\ db' = ServerApply(db, r)
        /\ log' = log \o SuccessEffects(r)
        /\ navPending' = TRUE
        /\ Finally(r)
        /\ UNCHANGED <<params, initialData, values, errors, rendered, mounted,
                       sent, trashClicked, submits>>
        /\ UNCHANGED otherVars

\* The awaited request rejects: the catch block, then finally.
ResolveFail ==
    \E r \in inflight :
        /\ inflight' = inflight \ {r}
        /\ log' = log \o FailureEffects(r)
        /\ Finally(r)
        /\ UNCHANGED <<params, initialData, values, errors, rendered, mounted,
                       navPending, sent, db, trashClicked, submits>>
        /\ UNCHANGED otherVars

\* The route change requested by router.push commits: the form unmounts.
RouteCommit ==
    /\ mounted
    /\ navPending
    /\ mounted' = FALSE
    /\ navPending' = FALSE
    /\ UNCHANGED <<params, initialData, values, errors, isSubmitted, open, loading, rendered,
                   inflight, sent, log, db, trashClicked, submits>>
    /\ UNCHANGED <<clickedSince, page, list, modal>>

Next ==
    \/ Render
    \/ ChangeLabel
    \/ ChangeImage
    \/ Submit
    \/ TrashClick
    \/ ModalClose
    \/ ConfirmClick
    \/ ResolveOk
    \/ ResolveFail
    \/ RouteCommit

Spec == Init /\ [][Next]_vars

(***************************************************************************)
(* The form with the fields already filled in, submitted as they are        *)
(***************************************************************************)
InitValidate ==
    /\ params \in Routes
    /\ db = InitialDb
    /\ initialData = LoadRecord(params, db)
    /\ \E l \in TypedLabels, u \in TypedUrls :
           values = [defaultValues EXCEPT !.label = l, !.imageUrl = u]
    /\ errors = {}
    /\ isSubmitted = FALSE
    /\ open = InitialOpen
    /\ loading = InitialLoading
    /\ rendered = [loading |-> loading, open |-> open]
    /\ mounted = TRUE
    /\ navPending = FALSE
    /\ inflight = {}
    /\ sent = <<>>
    /\ log = <<>>
    /\ trashClicked = FALSE
    /\ submits = 0
    /\ clickedSince = FALSE
    /\ page = Off
    /\ list = Off
    /\ modal = Off

NextValidate ==
    \/ Submit
    \/ Render
    \/ ResolveOk
    \/ ResolveFail
    \/ RouteCommit

SpecValidate == InitValidate /\ [][NextValidate]_vars

(***************************************************************************)
(* The form's variables while another screen is on display                 *)
(***************************************************************************)
FormOff ==
    /\ params = [storeId |-> "s1", billboardId |-> IdNew]
    /\ db = InitialDb
    /\ initialData = NoData
    /\ values = [label |-> EmptyString, imageUrl |-> EmptyString]
    /\ errors = {}
    /\ isSubmitted = FALSE
    /\ open = FALSE
    /\ loading = FALSE
    /\ rendered = [loading |-> FALSE, open |-> FALSE]
    /\ mounted = FALSE
    /\ navPending = FALSE
    /\ inflight = {}
    /\ sent = <<>>
    /\ log = <<>>
    /\ trashClicked = FALSE
    /\ submits = 0
    /\ clickedSince = FALSE

(***************************************************************************)
(* ProductPage: the server component of the product create / edit screen   *)
(***************************************************************************)
IdMissing == <<"b">> \o Rep("2", 23)
IdInvalid == <<"x", "y", "z">>

StoreIds == {"s1", "s2"}
ProductIds == {IdNew, IdA, IdAUpper, IdMissing, IdInvalid}

\* Stored reference records: one category, size and colour per store.
RefOid(c, sid) == CastObjectId(<<c>> \o Rep(IF sid = "s1" THEN "1" ELSE "2", 23))

CategoriesDb ==
    {[_id |-> RefOid("c", sid), storeId |-> sid, name |-> <<"cat", sid>>] :
        sid \in StoreIds}
SizesDb ==
    {[_id |-> RefOid("d", sid), storeId |-> sid, name |-> <<"size", sid>>,
      value |-> "M"] : sid \in StoreIds}
ColorsDb ==
    {[_id |-> RefOid("e", sid), storeId |-> sid, name |-> <<"color", sid>>,
      value |-> "#fff"] : sid \in StoreIds}

\* The stored products: one, owned by store s1.
ProductsDb ==
    {[_id |-> CastObjectId(IdA), storeId |-> "s1", name |-> "shirt", price |-> 10,
      isFeatured |-> TRUE, isArchived |-> FALSE,
      categoryId |-> RefOid("c", "s1"), sizeId |-> RefOid("d", "s1"),
      colorId |-> RefOid("e", "s1"), images |-> <<UrlGood>>]}

\* Mutant: the record's _id handed on as the route spelt it.
LoadProduct_RouteId(p, products) ==
    IF p.productId # IdNew /\ isValidObjectId(p.productId)
    THEN LET found == findById(p.productId, products)
         IN  IF found # NoData
             THEN [_id |-> p.productId,
                   name |-> found.name,
                   price |-> found.price,
                   isFeatured |-> found.isFeatured,
                   isArchived |-> found.isArchived,
                   categoryId |-> ObjectIdToString(found.categoryId),
                   sizeId |-> ObjectIdToString(found.sizeId),
                   colorId |-> ObjectIdToString(found.colorId),
                   images |-> found.images]
             ELSE NoData
    ELSE NoData

\* 1. Load existing product if editing.
LoadProduct(p, products) ==
    IF p.productId # IdNew /\ isValidObjectId(p.productId)
    THEN LET found == findById(p.productId, products)
         IN  IF found # NoData
             THEN [_id |-> ObjectIdToString(found._id),
                   name |-> found.name,
                   price |-> found.price,
                   isFeatured |-> found.isFeatured,
                   isArchived |-> found.isArchived,
                   categoryId |-> ObjectIdToString(found.categoryId),
                   sizeId |-> ObjectIdToString(found.sizeId),
                   colorId |-> ObjectIdToString(found.colorId),
                   images |-> found.images]
             ELSE NoData
    ELSE NoData

\* Model.find({ storeId }).lean()
FindByStore(coll, sid) == {rec \in coll : rec.storeId = sid}

\* rawCats.map(...), rawSizes.map(...), rawColors.map(...)
LeanCategories(raw) == {[_id |-> ObjectIdToString(c._id), name |-> c.name] : c \in raw}
LeanSizes(raw) ==
    {[_id |-> ObjectIdToString(x._id), name |-> x.name, value |-> x.value] : x \in raw}
LeanColors(raw) ==
    {[_id |-> ObjectIdToString(c._id), name |-> c.name, value |-> c.value] : c \in raw}

\* The outcomes of the three fetches handed to Promise.all.
FetchOutcomes == [categories : BOOLEAN, sizes : BOOLEAN, colors : BOOLEAN]

\* Mutant: the error of the dropdown load not caught.
CatchDropdownError_Rethrow(pg) == [pg EXCEPT !.pc = "failed"]

\* catch (error) { console.error(...) }: the three lists stay as declared.
CatchDropdownError(pg) == [pg EXCEPT !.pc = "render"]

\* 2. Load dropdown data in parallel: Promise.all rejects as soon as one of
\* its fetches rejects, and then none of the three assignments runs.
LoadDropdowns(pg, ok) ==
    IF ok.categories /\ ok.sizes /\ ok.colors
    THEN [pg EXCEPT !.pc = "render",
                    !.fetched = ok,
                    !.categories = LeanCategories(FindByStore(CategoriesDb, pg.params.storeId)),
                    !.sizes = LeanSizes(FindByStore(SizesDb, pg.params.storeId)),
                    !.colors = LeanColors(FindByStore(ColorsDb, pg.params.storeId))]
    ELSE CatchDropdownError([pg EXCEPT !.fetched = ok])

InitPage ==
    /\ FormOff
    /\ list = Off
    /\ modal = Off
    /\ \E pid \in ProductIds, sid \in StoreIds :
           page = [pc |-> "start",
                   params |-> [productId |-> pid, storeId |-> sid],
                   product |-> NoData,
                   categories |-> {}, sizes |-> {}, colors |-> {},
                   fetched |-> NoData,
                   props |-> NoData]

\* await connectDB(), then step 1.
PageLoadProduct ==
    /\ page.pc = "start"
    /\ page' = [page EXCEPT !.pc = "dropdowns",
                            !.product = LoadProduct(page.params, ProductsDb)]
    /\ UNCHANGED <<formVars, list, modal>>

\* connectDB() or findById rejects: neither is inside a try block.
PageLoadRejects ==
    /\ page.pc = "start"
    /\ page' = [page EXCEPT !.pc = "failed"]
    /\ UNCHANGED <<formVars, list, modal>>

\* Step 2, with each outcome of the three fetches.
PageLoadDropdowns ==
    /\ page.pc = "dropdowns"
    /\ \E ok \in FetchOutcomes : page' = LoadDropdowns(page, ok)
    /\ UNCHANGED <<formVars, list, modal>>

\* 3. Render form: the props ProductForm receives.
PageRender ==
    /\ page.pc = "render"
    /\ page' = [page EXCEPT !.pc = "rendered",
                            !.props = [initialData |-> page.product,
                                       categories |-> page.categories,
                                       sizes |-> page.sizes,
                                       colors |-> page.colors]]
    /\ UNCHANGED <<formVars, list, modal>>

NextPage ==
    \/ PageLoadProduct
    \/ PageLoadRejects
    \/ PageLoadDropdowns
    \/ PageRender

SpecPage == InitPage /\ [][NextPage]_vars

(***************************************************************************)
(* The list screens: BillboardClient and CategoryClient                    *)
(***************************************************************************)
MaxRows == 2

BillboardRows ==
    {[id |-> n, label |-> Rep("x", 3), createdAt |-> "day"] : n \in {"b1", "b2", "b3"}}
CategoryRows ==
    {[id |-> n, name |-> "cat", billboardLabel |-> Rep("x", 3), createdAt |-> "day"] :
        n \in {"c1", "c2", "c3"}}

RECURSIVE SeqsUpTo(_, _)
SeqsUpTo(S, n) ==
    IF n = 0 THEN {<<>>}
    ELSE LET shorter == SeqsUpTo(S, n - 1)
         IN  shorter \cup {Append(q, x) : q \in {r \in shorter : Len(r) = n - 1}, x \in S}

Clients == {"BillboardClient", "CategoryClient"}
DataOf(client) ==
    SeqsUpTo(IF client = "BillboardClient" THEN BillboardRows ELSE CategoryRows, MaxRows)

\* `${data.length}`: a number in a template literal, in decimal digits.
DigitSeq == <<"0", "1", "2", "3", "4", "5", "6", "7", "8", "9">>

RECURSIVE ToDecimal(_)
ToDecimal(n) ==
    IF n < 10 THEN <<DigitSeq[n + 1]>>
    ELSE ToDecimal(n \div 10) \o <<DigitSeq[(n % 10) + 1]>>

\* The elements both clients return, in any state of their data.
ClientElements == {"Heading", "AddNew", "Separator", "DataTable", "ApiHeading", "ApiList"}

BillboardClient(data, storeId) ==
    [elements |-> ClientElements,
     title |-> <<"Billboards: ", ToDecimal(Len(data))>>,
     onAddNew |-> <<storeId, "billboards", "new">>,
     table |-> [searchKey |-> "label", data |-> data],
     entityName |-> "billboards"]

\* Mutant: Add New of the category list routing to the billboard form.
CategoryClient_BillboardsRoute(data, storeId) ==
    [elements |-> ClientElements,
     title |-> <<"Categories: ", ToDecimal(Len(data))>>,
     onAddNew |-> <<storeId, "billboards", "new">>,
     table |-> [searchKey |-> "name", data |-> data],
     entityName |-> "categories"]

CategoryClient(data, storeId) ==
    [elements |-> ClientElements,
     title |-> <<"Categories: ", ToDecimal(Len(data))>>,
     onAddNew |-> <<storeId, "categories", "new">>,
     table |-> [searchKey |-> "name", data |-> data],
     entityName |-> "categories"]

InitList ==
    /\ FormOff
    /\ page = Off
    /\ modal = Off
    /\ \E client \in Clients, sid \in StoreIds :
           \E data \in DataOf(client) :
               list = [pc |-> "start", client |-> client, storeId |-> sid,
                       data |-> data, view |-> NoData, pushed |-> NoData]

\* The component function runs and its output is committed.
ListRender ==
    /\ list.pc = "start"
    /\ list' = [list EXCEPT !.pc = "shown",
                            !.view = IF list.client = "BillboardClient"
                                     THEN BillboardClient(list.data, list.storeId)
                                     ELSE CategoryClient(list.data, list.storeId)]
    /\ UNCHANGED <<formVars, page, modal>>

\* A click on Add New: onClick={() => router.push(...)}.
ListAddNew ==
    /\ list.pc = "shown"
    /\ "AddNew" \in list.view.elements
    /\ list' = [list EXCEPT !.pc = "left", !.pushed = list.view.onAddNew]
    /\ UNCHANGED <<formVars, page, modal>>

NextList ==
    \/ ListRender
    \/ ListAddNew

SpecList == InitList /\ [][NextList]_vars

(***************************************************************************)
(* SetUpPage and the store modal                                           *)
(***************************************************************************)
MaxCloses == 12

\* useStoreModal: onOpen sets isOpen, onClose clears it.
onOpen(m) == [m EXCEPT !.isOpen = TRUE, !.opens = m.opens + 1]
onClose(m) == [m EXCEPT !.isOpen = FALSE, !.closes = m.closes + 1]

\* Mutant: the effect calling onOpen whatever isOpen is.
EffectOpens_Always(isOpen) == TRUE

\* if (!isOpen) onOpen(), with the isOpen of the render the effect belongs to.
EffectOpens(isOpen) == ~isOpen

\* SetUpPage mounts: its first render reads isOpen and schedules the effect.
InitSetUp ==
    /\ FormOff
    /\ page = Off
    /\ list = Off
    /\ \E o \in BOOLEAN :
           modal = [pc |-> "mounted", isOpen |-> o, seen |-> o, effectPending |-> TRUE,
                    opens |-> 0, closes |-> 0]

\* The store changed: SetUpPage renders again with the new isOpen, and the
\* effect, whose dependency changed, is scheduled.  Pending effects run
\* before the next render.
SetUpRender ==
    /\ modal.pc = "mounted"
    /\ ~modal.effectPending
    /\ modal.seen # modal.isOpen
    /\ modal' = [modal EXCEPT !.seen = modal.isOpen, !.effectPending = TRUE]
    /\ UNCHANGED <<formVars, page, list>>

\* useEffect(() => { if (!isOpen) onOpen(); }, [isOpen, onOpen])
SetUpEffect ==
    /\ modal.pc = "mounted"
    /\ modal.effectPending
    /\ modal' = IF EffectOpens(modal.seen)
                THEN [onOpen(modal) EXCEPT !.effectPending = FALSE]
                ELSE [modal EXCEPT !.effectPending = FALSE]
    /\ UNCHANGED <<formVars, page, list>>

\* The user dismisses the modal: possible once it is displayed, which is in
\* the commit in which SetUpPage has rendered with isOpen true.
StoreModalClose ==
    /\ modal.pc = "mounted"
    /\ modal.isOpen
    /\ modal.seen
    /\ modal.closes < MaxCloses
    /\ modal' = onClose(modal)
    /\ UNCHANGED <<formVars, page, list>>

NextSetUp ==
    \/ SetUpRender
    \/ SetUpEffect
    \/ StoreModalClose

\* React runs a scheduled render and a scheduled effect; the user need not
\* ever dismiss the modal.
SpecSetUp ==
    /\ InitSetUp
    /\ [][NextSetUp]_vars
    /\ WF_vars(SetUpRender)
    /\ WF_vars(SetUpEffect)

(***************************************************************************)
(* Properties                                                              *)
(***************************************************************************)
SentIds == 1..Len(sent)

Succeeded(id) == \E k \in 1..Len(log) : log[k].req = id /\ log[k].eff = "toast.success"
Failed(id) == \E k \in 1..Len(log) : log[k].req = id /\ log[k].eff = "toast.error"

PushesOf(id) == SelectSeq(log, LAMBDA e : e.req = id /\ e.eff = "push")

\* This step is the rejection of request r: r leaves the set of pending
\* requests and the step reports no success.
RejectionOf(r) ==
    /\ r \in inflight
    /\ inflight' = inflight \ {r}
    /\ \A k \in (Len(log) + 1)..Len(log') : log'[k].eff # "toast.success"

\* C1: while a create/update request of the form is pending, no second
\* create/update request is issued, so at most one of them is pending.
C1_OneSubmitRequestPending ==
    Cardinality({r \in inflight : r.kind = "submit"}) <= 1

\* C2: in create mode every submit of valid values issues exactly one
\* request, a POST to /api/{storeId}/billboards carrying the valid values,
\* never a PATCH or DELETE, and a request that succeeded pushed the route
\* /{storeId}/billboards exactly once.
C2_CreateIssuesOnePost ==
    initialData = NoData =>
        /\ Len(sent) = submits
        /\ \A i \in SentIds :
              /\ sent[i].method = "POST"
              /\ sent[i].path = <<"api", params.storeId, "billboards">>
              /\ LabelOk(sent[i].body.label)
              /\ IsUrl(sent[i].body.imageUrl)
              /\ Succeeded(i) =>
                    /\ Len(PushesOf(i)) = 1
                    /\ PushesOf(i)[1].arg = <<params.storeId, "billboards">>

C2_Witness ==
    /\ initialData = NoData
    /\ \E i \in SentIds : sent[i].method = "POST" /\ Succeeded(i)

C4_DeleteOnlyAfterConfirmation ==
    [][(Len(sent') > Len(sent) /\ sent'[Len(sent')].method = "DELETE") =>
           (trashClicked /\ rendered.open /\ initialData # NoData)]_vars

C4_Witness == \E i \in SentIds : sent[i].method = "DELETE"

\* C5: in create mode the confirmation modal is never open and no DELETE
\* request is ever issued.
C5_NoDeleteInCreateMode ==
    initialData = NoData =>
        /\ ~open
        /\ ~rendered.open
        /\ \A i \in SentIds : sent[i].method # "DELETE"

C5_Witness == initialData = NoData /\ mounted /\ submits >= 2 /\ Failed(1)

\* C6: whenever a request of the form is in flight, loading is true.
C6_LoadingWhileInFlight == (mounted /\ inflight # {}) => loading

\* C7: at most one request of the form is in flight.
C7_OneMutationInFlight == Cardinality(inflight) <= 1

\* C8: the rejection of a create/update request shows exactly the generic
\* failure notification, neither navigates nor refreshes, keeps the field
\* values and the store, and leaves the mounted form with loading false.
C8_FailedSubmitReturnsToIdle ==
    [][\A r \in inflight :
           (r.kind = "submit" /\ RejectionOf(r)) =>
               /\ log' = Append(log, [eff |-> "toast.error", req |-> r.id,
                                      arg |-> <<"Something went wrong.">>])
               /\ navPending' = navPending
               /\ values' = values
               /\ db' = db
               /\ mounted' = mounted
               /\ mounted => ~loading']_vars

\* A failed submit followed by a new submit of the same values.
C8_Witness ==
    \E i, j \in SentIds :
        /\ i < j
        /\ sent[i].kind = "submit"
        /\ sent[j].kind = "submit"
        /\ sent[j].body = sent[i].body
        /\ \E k \in 1..sent[j].at : log[k].req = i /\ log[k].eff = "toast.error"

\* C9: the rejection of a delete request shows exactly the notification
\* advising to remove dependent records first, does not navigate, and leaves
\* the rows of a list fetch for the store as they were.
C9_RejectedDeleteKeepsRecord ==
    [][\A r \in inflight :
           (r.kind = "delete" /\ RejectionOf(r)) =>
               /\ log' = Append(log, [eff |-> "toast.error", req |-> r.id,
                                      arg |-> <<ToastDeleteFailed>>])
               /\ navPending' = navPending
               /\ ListRows(db', params.storeId) = ListRows(db, params.storeId)]_vars

\* A delete was rejected and the record's row is still listed.
C9_Witness ==
    /\ \E i \in SentIds : sent[i].method = "DELETE" /\ Failed(i)
    /\ \E row \in ListRows(db, params.storeId) : row.id = initialData._id

\* C10: once a request has succeeded the form accepts no further submit or
\* delete: no request is issued after a success.
C10_NoRequestAfterSuccess ==
    \A i \in SentIds :
        \A k \in 1..sent[i].at : log[k].eff # "toast.success"

\* The effects request id caused, in order.
EffectsOf(id) == SelectSeq(log, LAMBDA e : e.req = id)

\* C11: a submit request has caused no effect while it is pending; once it
\* has succeeded its effects are, in this order and once each, the push of
\* /{storeId}/billboards, the refresh and the success notification, whose
\* text is the created message when initialData is absent and the updated
\* message when it is present; a request that did not succeed caused none of
\* the three.
C11_SuccessEffectsInOrder ==
    \A i \in SentIds :
        sent[i].kind = "submit" =>
            /\ (\E r \in inflight : r.id = i) => EffectsOf(i) = <<>>
            /\ \/ EffectsOf(i) = <<>>
               \/ /\ Len(EffectsOf(i)) = 1
                  /\ EffectsOf(i)[1].eff = "toast.error"
               \/ EffectsOf(i) =
                      <<[eff |-> "push", req |-> i,
                         arg |-> <<params.storeId, "billboards">>],
                        [eff |-> "refresh", req |-> i, arg |-> <<>>],
                        [eff |-> "toast.success", req |-> i,
                         arg |-> <<IF initialData = NoData
                                   THEN "Billboard created successfully"
                                   ELSE "Billboard updated successfully">>]>>

C11_Witness ==
    /\ initialData # NoData
    /\ \E i \in SentIds : sent[i].kind = "submit" /\ Succeeded(i)

\* C12: from field values in which the label is shorter than 3 or longer
\* than 25 characters, or the imageUrl is not a URL, no step issues a request,
\* sets loading, navigates or notifies: a submit event only records the
\* validation errors.
C12_InvalidBlocksSubmit ==
    [][(\/ Len(values.label) < 3
        \/ Len(values.label) > 25
        \/ ~IsUrl(values.imageUrl)) =>
           /\ sent' = sent
           /\ inflight' = inflight
           /\ loading' = loading
           /\ navPending' = navPending
           /\ log' = log]_vars

\* A submit event on a label of 26 characters was turned down.
C12_Witness ==
    /\ Len(values.label) = 26
    /\ "label" \in errors
    /\ isSubmitted
    /\ sent = <<>>
    /\ ~loading

\* The stored record a lean record with this string id comes from.
OwnersOf(coll, id) == {rec.storeId : rec \in {x \in coll : ObjectIdToString(x._id) = id}}

\* C13: every record ProductPage hands to ProductForm (the product given as
\* initialData and every category, size and colour option) belongs to the
\* store of the route.
C13_PropsBelongToRouteStore ==
    page.pc = "rendered" =>
        /\ page.props.initialData # NoData =>
               OwnersOf(ProductsDb, page.props.initialData._id) = {page.params.storeId}
        /\ \A c \in page.props.categories :
               OwnersOf(CategoriesDb, c._id) = {page.params.storeId}
        /\ \A x \in page.props.sizes :
               OwnersOf(SizesDb, x._id) = {page.params.storeId}
        /\ \A c \in page.props.colors :
               OwnersOf(ColorsDb, c._id) = {page.params.storeId}

\* C14: once the dropdown load has failed the page does not fail: it goes
\* on to render, with empty option sets and with the initialData determined
\* before.
C14_DropdownFailureDegrades ==
    (/\ page.pc # "off"
     /\ page.fetched # NoData
     /\ ~(page.fetched.categories /\ page.fetched.sizes /\ page.fetched.colors)) =>
        /\ page.pc \in {"render", "rendered"}
        /\ page.categories = {} /\ page.sizes = {} /\ page.colors = {}
        /\ page.pc = "rendered" =>
               /\ page.props.categories = {}
               /\ page.props.sizes = {}
               /\ page.props.colors = {}
               /\ page.props.initialData = page.product
               /\ (page.props.initialData = NoData) =
                      (~isValidObjectId(page.params.productId)
                          \/ findById(page.params.productId, ProductsDb) = NoData)

C14_Witness ==
    /\ page.pc = "rendered"
    /\ ~page.fetched.sizes
    /\ page.props.initialData # NoData

\* The route's productId matches a stored product.
MatchesStored(pid) ==
    \E rec \in ProductsDb : rec._id = CastObjectId(pid)

ProductFields ==
    {"_id", "name", "price", "isFeatured", "isArchived",
     "categoryId", "sizeId", "colorId", "images"}

\* C16 (as claimed): initialData is absent exactly when the productId is
\* 'new', is no valid object id or matches no stored product; otherwise it is
\* a fully populated record whose _id equals the route's productId.
C16_InitialDataIdIsRouteId ==
    page.pc = "rendered" =>
        LET pid == page.params.productId
            absent == \/ pid = <<"n", "e", "w">>
                      \/ ~isValidObjectId(pid)
                      \/ ~MatchesStored(pid)
        IN  /\ (page.props.initialData = NoData) = absent
            /\ ~absent =>
                   /\ DOMAIN page.props.initialData = ProductFields
                   /\ page.props.initialData._id = pid

\* C16 (amended): as above, but the record's _id is the string form of the
\* ObjectId the route's productId casts to, its 24 hex digits in lower case,
\* and the record carries the stored product's fields.
C16_InitialDataIdIsCanonical ==
    page.pc = "rendered" =>
        LET pid == page.params.productId
            absent == \/ pid = <<"n", "e", "w">>
                      \/ ~isValidObjectId(pid)
                      \/ ~MatchesStored(pid)
        IN  /\ (page.props.initialData = NoData) = absent
            /\ ~absent =>
                   LET rec == CHOOSE x \in ProductsDb : x._id = CastObjectId(pid)
                   IN  /\ DOMAIN page.props.initialData = ProductFields
                       /\ Len(page.props.initialData._id) = 24
                       /\ \A k \in 1..24 :
                              /\ page.props.initialData._id[k] \in Letters \cup Digits
                              /\ NibbleOf(page.props.initialData._id[k]) = NibbleOf(pid[k])
                       /\ page.props.initialData.name = rec.name
                       /\ page.props.initialData.price = rec.price
                       /\ page.props.initialData.images = rec.images

C16_Witness ==
    /\ page.pc = "rendered"
    /\ page.params.productId = IdAUpper
    /\ page.props.initialData # NoData
    /\ page.props.initialData._id # page.params.productId

\* C17: a collection whose fetch succeeded is handed to the form with its
\* loaded contents, whatever became of the other two fetches.
C17_SucceededFetchesKept ==
    page.pc = "rendered" =>
        /\ page.fetched.categories =>
               page.props.categories =
                   LeanCategories(FindByStore(CategoriesDb, page.params.storeId))
        /\ page.fetched.sizes =>
               page.props.sizes = LeanSizes(FindByStore(SizesDb, page.params.storeId))
        /\ page.fetched.colors =>
               page.props.colors = LeanColors(FindByStore(ColorsDb, page.params.storeId))

\* The number a string of decimal digits denotes.
RECURSIVE DecimalValue(_)
DecimalValue(digits) ==
    IF digits = <<>> THEN 0
    ELSE 10 * DecimalValue(SubSeq(digits, 1, Len(digits) - 1))
         + (CHOOSE d \in 0..9 : DigitSeq[d + 1] = digits[Len(digits)])

\* C15: a list screen, for every data array and the empty one too, hands the
\* table exactly the given rows, shows their count in the heading, shows no
\* error, offers Add New, and Add New routes to /{storeId}/{entity}/new of
\* the route's store.
C15_ListShowsRowsAndAddNew ==
    list.pc \in {"shown", "left"} =>
        LET billboards == list.client = "BillboardClient"
        IN  /\ list.view.table.data = list.data
            /\ list.view.title[1] = (IF billboards THEN "Billboards: " ELSE "Categories: ")
            /\ DecimalValue(list.view.title[2]) = Len(list.data)
            /\ "Error" \notin list.view.elements
            /\ {"Heading", "DataTable", "AddNew"} \subseteq list.view.elements
            /\ list.pc = "shown" => list.pushed = NoData
            /\ list.pc = "left" =>
                   list.pushed = <<list.storeId,
                                   IF billboards THEN "billboards" ELSE "categories",
                                   "new">>

C15_Witness ==
    /\ list.pc = "left"
    /\ list.client = "CategoryClient"
    /\ list.data = <<>>
    /\ list.storeId = "s2"

\* C18: the step that completes a delete, resolved or rejected, leaves the
\* mounted form with open = FALSE and loading = FALSE; from then on Confirm is
\* not available until the delete button has been clicked again, and every
\* step that issues a DELETE is a confirm preceded by such a click.
C18_DeleteCompletionClosesModal ==
    [][/\ \A r \in inflight \ inflight' :
              (r.kind = "delete" /\ mounted) => (~open' /\ ~loading')
       /\ ~clickedSince => ~ConfirmEnabled
       /\ (Len(sent') > Len(sent) /\ sent'[Len(sent')].kind = "delete") =>
              (clickedSince /\ rendered.open)]_vars

\* C19: while SetUpPage is mounted, whenever the store modal is closed a
\* render or an effect of the page is pending, the modal being closed always
\* leads to its being open, and onOpen is called only while it is closed.
C19_ModalReopens ==
    /\ [](modal.isOpen = FALSE =>
              \/ modal.effectPending /\ ~modal.seen
              \/ modal.seen)
    /\ (modal.isOpen = FALSE) ~> (modal.isOpen = TRUE)
    /\ [][modal'.opens # modal.opens => ~modal.isOpen]_vars

C19_Witness ==
    /\ modal.pc = "mounted"
    /\ modal.closes >= 1
    /\ modal.opens >= 2
    /\ modal.isOpen

====
